---- MODULE Spec2Model ----
(***************************************************************************)
(* Bulk download orchestration of the eCourts cause list scraper:          *)
(* DownloadService.download_bulk_cause_lists (bounded pool of fetch calls, *)
(* harvesting, archive) and BulkDownloadManager (session registry,         *)
(* background jobs, cancel, cleanup), from services/download_service.py.   *)
(***************************************************************************)
EXTENDS Integers, Sequences, FiniteSets, TLC

\* ------------------------------------------------------------------ bounds
MaxCourts == 4          \* largest work set of a direct orchestrator run
MaxSessionCourts == 1   \* largest work set discovered for a session
MaxSessions == 2        \* session identifiers available
MaxTime == 1            \* clock values 0..MaxTime
MaxAge == 1             \* max_age_hours values 0..MaxAge
MaxTotal == 3           \* totals 0..MaxTotal of a tracker on its own
MaxUpdates == 3         \* update_progress calls on a tracker on its own
MaxCallbacks == 2       \* callbacks registered on a tracker on its own
MaxJobCourts == 3       \* largest work set of the one session of SpecSession

\* ------------------------------------------------------- program constants
MaxSingleCalls == 3     \* direct calls of download_single_cause_list
MaxSingleCourts == 2    \* courts a direct call can name
MaxWorkersOneMore == 3 + 1
MaxWorkers == 3

Slots == 1..MaxSessions

\* Optional values: None is the empty sequence, a value v is <<v>>.
None == <<>>
Some(v) == <<v>>

\* ----------------------------------------------------------------- inputs
Dates == {<<"2", "0", "2", "5", "-", "0", "1", "-", "1", "5">>}
ComplexCodes == {"CX1"}
Requests == [state_code : {"ST"}, district_code : {"DT"},
             complex_code : ComplexCodes, date : Dates]
FaultMessages == {"timeout"}
FileSizes == {2048}

\* What the scraper's get_courts call does: it raises, or it returns n courts.
Discoveries(max) == [fault : BOOLEAN, n : 0..max]

\* What the future of one fetch call holds: a successful result, a failure
\* result, or a raised fault.
FetchOutcomes ==
    [kind : {"ok"}, size : FileSizes, msg : {""}]
    \cup [kind : {"fail", "raise"}, size : {0}, msg : FaultMessages]

\* What the progress_callback argument of a direct call is: absent, or a
\* callable that raises.  (A callable that returns is the session manager's.)
CallbackModes == {"none", "raise"}

\* ---------------------------------------------------------- pure functions
RECURSIVE Join(_)
Join(s) == IF s = <<>> THEN "" ELSE Head(s) \o Join(Tail(s))

\* str.replace('-', '_') on a string held as a sequence of characters
ReplaceDashKeep(s) == s
ReplaceDash(s) == [k \in 1..Len(s) |-> IF s[k] = "-" THEN "_" ELSE s[k]]

\* The text of each request date, as given and with '-' replaced by '_'
DateText == [d \in Dates |-> Join(d)]
DateUnderscoredKept == [d \in Dates |-> Join(ReplaceDashKeep(d))]
DateUnderscored == [d \in Dates |-> Join(ReplaceDash(d))]

CourtCode(k) == "C" \o ToString(k)
CourtName(k) == "Court " \o ToString(k)
Court(k) == [code |-> CourtCode(k), name |-> CourtName(k)]

IdentifyCourtsUnguarded(disc) == [k \in 1..disc.n |-> Court(k)]

\* identify_courts_in_complex: the scraper's list, or [] when it raises
IdentifyCourtsInComplex(disc) ==
    IF disc.fault THEN <<>> ELSE [k \in 1..disc.n |-> Court(k)]

\* generate_filename(court_name, date, court_code)
GenerateFilename(court_name, date, court_code) ==
    court_name \o "_" \o court_code \o "_" \o DateUnderscored[date] \o ".pdf"

DownloadResult(success, filename, file_size, download_url, error_message) ==
    [success |-> success, filename |-> filename, file_size |-> file_size,
     download_url |-> download_url, error_message |-> error_message]

\* download_single_cause_list, for a scraper that reports success or failure
DownloadSingleCauseList(court_code, date, out) ==
    LET filename == GenerateFilename("Court_" \o court_code, date, court_code)
    IN  IF out.kind = "ok"
        THEN DownloadResult(TRUE, filename, out.size,
                 "/downloads/" \o DateText[date] \o "/" \o filename, None)
        ELSE DownloadResult(FALSE, filename, 0,
                 "/static/downloads/not_available.pdf", Some(out.msg))

\* What the scraper's download call does inside download_single_cause_list:
\* it returns a success (the move of the file then raises or not), it
\* returns a failure with or without an error_message entry, or it raises.
ScraperCalls ==
    [kind : {"ok"}, size : FileSizes, msg : {""}, has_msg : {FALSE},
     move_raises : BOOLEAN]
    \cup [kind : {"fail"}, size : {0}, msg : FaultMessages, has_msg : BOOLEAN,
          move_raises : {FALSE}]
    \cup [kind : {"raise"}, size : {0}, msg : FaultMessages, has_msg : {TRUE},
          move_raises : {FALSE}]

\* The clock readings of the fallback filename, as strftime formats them
Stamps == {"20250115_103000"}

DownloadSingleCauseListUnguarded(court_code, date, call, stamp) ==
    [raised |-> call.kind = "raise" \/ call.move_raises,
     result |-> DownloadSingleCauseList(court_code, date,
                    [kind |-> IF call.kind = "ok" THEN "ok" ELSE "fail",
                     size |-> call.size,
                     msg |-> IF call.has_msg THEN call.msg
                             ELSE "Unknown download error"])]

\* download_single_cause_list with its except branch: raised says whether
\* the call raises to its caller, result is what it returns otherwise.
DownloadSingleCauseListGuarded(court_code, date, call, stamp) ==
    IF call.kind = "raise" \/ call.move_raises
    THEN [raised |-> FALSE,
          result |-> DownloadResult(FALSE, "error_" \o stamp \o ".pdf", 0,
                         "/static/downloads/error.pdf",
                         Some("Download service error: " \o
                              (IF call.kind = "raise" THEN call.msg
                               ELSE "move failed")))]
    ELSE [raised |-> FALSE,
          result |-> DownloadSingleCauseList(court_code, date,
                         [kind |-> call.kind, size |-> call.size,
                          msg |-> IF call.has_msg \/ call.kind = "ok" THEN call.msg
                                  ELSE "Unknown download error"])]

\* the synthetic result of the per-unit except branch
ErrorResultPlain(court, date, msg) ==
    DownloadResult(FALSE,
        "error_" \o court.code \o "_" \o DateUnderscoredKept[date] \o ".pdf",
        0, "/static/downloads/error.pdf", Some(msg))
ErrorResult(court, date, msg) ==
    DownloadResult(FALSE,
        "error_" \o court.code \o "_" \o DateUnderscored[date] \o ".pdf",
        0, "/static/downloads/error.pdf", Some(msg))

ZipFilenameDashed(request) ==
    "bulk_download_" \o request.complex_code \o "_"
        \o DateText[request.date] \o ".zip"

\* The archive name built at line 425
ZipFilename(request) ==
    "bulk_download_" \o request.complex_code \o "_"
        \o DateUnderscored[request.date] \o ".zip"

\* create_zip_archive: present is the set of input files that exist when the
\* archive is written, fault says whether writing it raises.  The location is
\* returned when the archive file exists with a positive size, and an archive
\* without entries still holds its end record.
CreateZipArchive(file_paths, zip_filename, date, present, fault) ==
    IF file_paths = <<>> \/ fault
    THEN [location |-> None, entries |-> {}]
    ELSE [location |-> Some("downloads/" \o DateText[date] \o "/" \o zip_filename),
          entries |-> {file_paths[k] : k \in 1..Len(file_paths)} \cap present]

BulkDownloadResult(success, total, ok, failed, results, zipname, zipurl) ==
    [success |-> success, total_files |-> total, successful_downloads |-> ok,
     failed_downloads |-> failed, download_results |-> results,
     zip_filename |-> zipname, zip_download_url |-> zipurl]

EmptyBulkResultSuccess == BulkDownloadResult(TRUE, 0, 0, 0, <<>>, None, None)
EmptyBulkResult == BulkDownloadResult(FALSE, 0, 0, 0, <<>>, None, None)

\* "overall_success = successful_downloads > 0"
OverallSuccessAllOrNothing(successful_downloads, total_courts) ==
    successful_downloads = total_courts
OverallSuccess(successful_downloads, total_courts) == successful_downloads > 0

\* "if successful_files:", the guard of the archive step
ArchiveAttemptedOnSuccess(successful_files, successful_downloads) ==
    successful_downloads > 0
ArchiveAttempted(successful_files, successful_downloads) ==
    successful_files # <<>>

RECURSIVE CountSuccess(_)
CountSuccess(results) ==
    IF results = <<>> THEN 0
    ELSE (IF Head(results).success THEN 1 ELSE 0) + CountSuccess(Tail(results))

\* --------------------------------------------------------- ProgressTracker
\* What a registered callback does with the progress_info it is given
TrackerCallbacks == {"returns", "raises"}
ItemNames == {CourtName(1), CourtName(2)}

\* The object after __init__.  Four fields are not attributes of the
\* program's object: progress_info is the dict built by the last
\* update_progress call, history lists the update_progress calls made so far
\* (their success flag and the number of callbacks registered at the call),
\* delivered lists what the callbacks were given, in the order of the calls,
\* and raised tells whether the last update_progress call raised.
NewTracker(total) ==
    [total_items |-> total, completed_items |-> 0, successful_items |-> 0,
     failed_items |-> 0, current_item |-> None, callbacks |-> <<>>,
     progress_info |-> None, history |-> <<>>, delivered |-> <<>>,
     raised |-> FALSE]

\* add_callback
AddCallbackTo(t, callback) == [t EXCEPT !.callbacks = Append(@, callback)]

\* round((completed_items / total_items) * 100, 2), in hundredths of a percent
\* (no quotient within the bounds lies halfway between two hundredths)
PercentTruncated(completed_items, total_items) ==
    (completed_items * 10000) \div total_items
Percent(completed_items, total_items) ==
    (2 * completed_items * 10000 + total_items) \div (2 * total_items)

\* The progress_info dict of one update, without its clock readings
ProgressInfo(t, item_name, success) ==
    [total_items |-> t.total_items, completed_items |-> t.completed_items,
     successful_items |-> t.successful_items, failed_items |-> t.failed_items,
     current_item |-> item_name,
     progress_percent |-> Percent(t.completed_items, t.total_items),
     success |-> success]

\* update_progress: the counters are incremented first, then the percentage
\* completed_items / total_items is computed, which raises for total_items = 0
\* before progress_info is built and before any callback is called.  Every
\* callback is called inside its own try/except.
UpdateProgress(t, item_name, success) ==
    LET inc == [t EXCEPT !.completed_items = @ + 1,
                         !.current_item = Some(item_name),
                         !.successful_items = IF success THEN @ + 1 ELSE @,
                         !.failed_items = IF success THEN @ ELSE @ + 1,
                         !.history = Append(@, [success |-> success,
                                                callbacks |-> Len(t.callbacks)])]
    IN  IF t.total_items = 0
        THEN [t |-> [inc EXCEPT !.raised = TRUE], raised |-> TRUE]
        ELSE LET info == ProgressInfo(inc, item_name, success) IN
             [t |-> [inc EXCEPT
                        !.progress_info = Some(info),
                        !.delivered = @ \o [j \in 1..Len(t.callbacks) |->
                                               [callback |-> j, info |-> info]],
                        !.raised = FALSE],
              raised |-> FALSE]

\* ------------------------------------------------------------------- state
VARIABLES
    now,                \* the clock read by datetime.now()
    active_downloads,   \* BulkDownloadManager.active_downloads
    tracker,            \* the ProgressTracker object of each session
    job,                \* position of each session's background thread
    run,                \* the download_bulk_cause_lists call of each slot
    cleanup,            \* a cleanup_completed_sessions call in progress
    cancel_returned,    \* ids for which cancel_download has returned True
    poll                \* a GET /api/download/{session_id}/status request

vars == <<now, active_downloads, tracker, job, run, cleanup, cancel_returned,
          poll>>

NoOutcome == [kind |-> "none", size |-> 0, msg |-> ""]
NoRequest == [state_code |-> "", district_code |-> "", complex_code |-> "",
              date |-> <<>>]

IdleRun ==
    [pc |-> "idle", request |-> NoRequest, cb |-> "none", courts |-> <<>>,
     fut |-> <<>>, download_results |-> <<>>, successful_files |-> <<>>,
     completed |-> 0, archive |-> None, result |-> None,
     discovery_raised |-> FALSE, outer_fault |-> FALSE]

IdleCleanup == [pc |-> "idle", sessions_to_remove |-> {}, cutoff_time |-> 0]

\* The view get_download_status builds; absent keys are None.
NoStatusInfo ==
    [found |-> FALSE, session_id |-> None, status |-> "",
     progress |-> [total_items |-> 0, completed_items |-> 0,
                   successful_items |-> 0, failed_items |-> 0,
                   success_rate |-> [num |-> 0, den |-> 1],
                   is_complete |-> TRUE],
     results |-> None, error |-> None]

IdlePoll == [pc |-> "idle", session_id |-> 0, status_info |-> NoStatusInfo,
             status_code |-> 0]

Init ==
    /\ now = 0
    /\ active_downloads = << >>
    /\ tracker = [i \in Slots |-> NewTracker(0)]
    /\ job = [i \in Slots |-> "none"]
    /\ run = [i \in Slots |-> IdleRun]
    /\ cleanup = IdleCleanup
    /\ cancel_returned = {}
    /\ poll = IdlePoll

\* ----------------------------------------------- download_bulk_cause_lists
InFlight(i) == Cardinality({k \in 1..Len(run[i].fut) : run[i].fut[k].st = "running"})
Queued(i) == {k \in 1..Len(run[i].fut) : run[i].fut[k].st = "queued"}
AllHarvested(i) == \A k \in 1..Len(run[i].fut) : run[i].fut[k].st = "harvested"

\* A caller other than the session manager enters the orchestrator.
CallBulk(i, request, cb) ==
    /\ job[i] = "none"
    /\ run[i].pc = "idle"
    /\ run' = [run EXCEPT ![i] = [IdleRun EXCEPT !.pc = "called",
                                                 !.request = request,
                                                 !.cb = cb]]
    /\ UNCHANGED <<now, active_downloads, tracker, job, cleanup, cancel_returned, poll>>

BulkDiscoverSkippingLast(i, disc) ==
    /\ run[i].pc = "called"
    /\ LET courts == IdentifyCourtsInComplex(disc) IN
       IF courts = <<>>
       THEN run' = [run EXCEPT ![i].pc = "returned",
                               ![i].discovery_raised = disc.fault,
                               ![i].result = Some(EmptyBulkResult)]
       ELSE run' = [run EXCEPT ![i].pc = "harvest",
                               ![i].discovery_raised = disc.fault,
                               ![i].courts = courts,
                               ![i].fut = [k \in 1..(Len(courts) - 1) |->
                                             [st |-> "queued", out |-> NoOutcome,
                                              on_disk |-> FALSE]]]
    /\ UNCHANGED <<now, active_downloads, tracker, job, cleanup, cancel_returned, poll>>

\* Discovery, the empty-work-set return, and the submission of one fetch call
\* per court to the pool.  discovery_raised remembers that the scraper's call
\* raised inside identify_courts_in_complex.
BulkDiscover(i, disc) ==
    /\ run[i].pc = "called"
    /\ LET courts == IdentifyCourtsInComplex(disc) IN
       IF courts = <<>>
       THEN run' = [run EXCEPT ![i].pc = "returned",
                               ![i].discovery_raised = disc.fault,
                               ![i].result = Some(EmptyBulkResult)]
       ELSE run' = [run EXCEPT ![i].pc = "harvest",
                               ![i].discovery_raised = disc.fault,
                               ![i].courts = courts,
                               ![i].fut = [k \in 1..Len(courts) |->
                                             [st |-> "queued", out |-> NoOutcome,
                                              on_disk |-> FALSE]]]
    /\ UNCHANGED <<now, active_downloads, tracker, job, cleanup, cancel_returned, poll>>

\* A pool worker takes the oldest queued fetch call; the pool has MaxWorkers
\* workers.
FetchStart(i) ==
    /\ run[i].pc = "harvest"
    /\ Queued(i) # {}
    /\ InFlight(i) < MaxWorkers
    /\ LET k == CHOOSE q \in Queued(i) : \A o \in Queued(i) : q <= o
       IN  run' = [run EXCEPT ![i].fut[k].st = "running"]
    /\ UNCHANGED <<now, active_downloads, tracker, job, cleanup, cancel_returned, poll>>

\* A running fetch call ends and its future is done; what the future holds
\* is read by the harvesting loop.
FetchFinish(i, k) ==
    /\ run[i].pc = "harvest"
    /\ k \in 1..Len(run[i].fut)
    /\ run[i].fut[k].st = "running"
    /\ run' = [run EXCEPT ![i].fut[k].st = "done"]
    /\ UNCHANGED <<now, active_downloads, tracker, job, cleanup, cancel_returned, poll>>

\* What calling the progress callback does: the tracker after it, and the
\* message of the fault it raises (None when it returns).
CallbackEffect(i, cb, court, success) ==
    CASE cb = "none" -> [t |-> tracker[i], fault |-> None]
      [] cb = "raise" -> [t |-> tracker[i], fault |-> Some("callback failed")]
      [] cb = "tracker" ->
            LET u == UpdateProgress(tracker[i], court.name, success)
            IN  [t |-> u.t,
                 fault |-> IF u.raised THEN Some("division by zero") ELSE None]

\* One iteration of the as_completed loop, for a finished future k:
\* future.result() gives out (a result, or a raised fault), and exists says
\* whether the unit's file is on disk when the loop looks for it.
Harvest(i, k, out, exists) ==
    /\ run[i].pc = "harvest"
    /\ k \in 1..Len(run[i].fut)
    /\ run[i].fut[k].st = "done"
    /\ LET r == run[i]
           court == r.courts[k]
           date == r.request.date
       IN  IF out.kind = "raise"
           THEN /\ run' = [run EXCEPT
                      ![i].fut[k].st = "harvested",
                      ![i].fut[k].out = out,
                      ![i].completed = @ + 1,
                      ![i].download_results =
                          Append(@, ErrorResult(court, date, out.msg))]
                /\ UNCHANGED tracker
           ELSE LET result == DownloadSingleCauseList(court.code, date, out)
                    eff == CallbackEffect(i, r.cb, court, result.success)
                IN  /\ run' = [run EXCEPT
                          ![i].fut[k].st = "harvested",
                          ![i].fut[k].out = out,
                          ![i].fut[k].on_disk = result.success /\ exists,
                          ![i].completed = @ + 1,
                          ![i].successful_files =
                              IF result.success /\ exists
                              THEN Append(@, result.filename) ELSE @,
                          ![i].download_results =
                              IF eff.fault = None
                              THEN Append(@, result)
                              ELSE Append(Append(@, result),
                                       ErrorResult(court, date, eff.fault[1]))]
                    /\ tracker' = [tracker EXCEPT ![i] = eff.t]
    /\ UNCHANGED <<now, active_downloads, job, cleanup, cancel_returned, poll>>

\* The files handed to the archive builder, and which of them may still exist
\* when the archive is written: all, none, or all but one.
Files(i) == {run[i].successful_files[k] : k \in 1..Len(run[i].successful_files)}
PresentAtArchive(i) ==
    {Files(i), {}} \cup {Files(i) \ {f} : f \in Files(i)}

\* After the loop: statistics, the archive, the returned BulkDownloadResult.
BulkFinish(i, present, fault) ==
    /\ run[i].pc = "harvest"
    /\ AllHarvested(i)
    /\ LET r == run[i]
           total_courts == Len(r.courts)
           successful_downloads == CountSuccess(r.download_results)
           failed_downloads == total_courts - successful_downloads
           attempt == ArchiveAttempted(r.successful_files, successful_downloads)
           name == ZipFilename(r.request)
           built == CreateZipArchive(r.successful_files, name,
                                     r.request.date, present, fault)
           zip_path == built.location
           zip_filename == IF attempt THEN Some(name) ELSE None
           zip_download_url ==
               IF attempt /\ zip_path # None THEN Some("/" \o zip_path[1]) ELSE None
       IN  run' = [run EXCEPT
               ![i].pc = "returned",
               ![i].archive =
                   IF attempt
                   THEN Some([file_paths |-> r.successful_files,
                              entries |-> built.entries,
                              location |-> zip_path])
                   ELSE None,
               ![i].result = Some(BulkDownloadResult(
                   OverallSuccess(successful_downloads, total_courts),
                   total_courts, successful_downloads,
                   failed_downloads, r.download_results,
                   zip_filename, zip_download_url))]
    /\ UNCHANGED <<now, active_downloads, tracker, job, cleanup, cancel_returned, poll>>

OuterExceptPartial(r) ==
    [r EXCEPT !.pc = "returned",
              !.outer_fault = TRUE,
              !.result = Some(BulkDownloadResult(FALSE, Len(r.courts),
                                  CountSuccess(r.download_results),
                                  Len(r.courts) - CountSuccess(r.download_results),
                                  r.download_results, None, None))]

\* The outer except branch of download_bulk_cause_lists: whatever the run
\* had gathered, the result it returns has no entry and zero counts.
\* outer_fault remembers that the branch was taken.
OuterExcept(r) ==
    [r EXCEPT !.pc = "returned",
              !.outer_fault = TRUE,
              !.result = Some(BulkDownloadResult(FALSE, 0, 0, 0, <<>>, None, None))]

\* A fault while the fetch calls are being submitted (a request that cannot
\* be built for a court, a worker that cannot be started): the calls
\* already submitted are waited for and dropped.
BulkSubmitFault(i, disc) ==
    /\ run[i].pc = "called"
    /\ IdentifyCourtsInComplex(disc) # <<>>
    /\ run' = [run EXCEPT ![i] =
                  OuterExcept([@ EXCEPT !.courts = IdentifyCourtsInComplex(disc)])]
    /\ UNCHANGED <<now, active_downloads, tracker, job, cleanup, cancel_returned, poll>>

\* A fault after the harvesting loop: in the computation of the archive URL
\* or in the construction of the result.
BulkFinishFault(i) ==
    /\ run[i].pc = "harvest"
    /\ AllHarvested(i)
    /\ run' = [run EXCEPT ![i] = OuterExcept(@)]
    /\ UNCHANGED <<now, active_downloads, tracker, job, cleanup, cancel_returned, poll>>

NextBulk ==
    \/ \E r \in Requests, cb \in CallbackModes : CallBulk(1, r, cb)
    \/ \E d \in Discoveries(MaxCourts) : BulkDiscover(1, d)
    \/ FetchStart(1)
    \/ \E k \in 1..MaxCourts : FetchFinish(1, k)
    \/ \E k \in 1..MaxCourts, out \in FetchOutcomes, exists \in BOOLEAN :
           Harvest(1, k, out, exists)
    \/ \E present \in PresentAtArchive(1), fault \in BOOLEAN : BulkFinish(1, present, fault)

SpecBulk == Init /\ [][NextBulk]_vars

\* ----------------------------------------------------- BulkDownloadManager
Registered == DOMAIN active_downloads
Terminal == {"completed", "error", "cancelled"}

\* The defaults of max_concurrent and retry_failed
DefaultArgs == [max_concurrent |-> 3, retry_failed |-> TRUE]
\* The values start_bulk_download is called with
StartArgs == [max_concurrent : 1..MaxWorkers, retry_failed : BOOLEAN]

SessionRunning(request, courts, status, start_time) ==
    [request |-> request, courts |-> courts, status |-> "running",
     start_time |-> start_time, results |-> None, error |-> None,
     terminal_at |-> None, args |-> DefaultArgs]

\* The registry entry.  Two fields are not keys of the program's dict:
\* terminal_at records when the status last went from a non-terminal to a
\* terminal value, and args holds the max_concurrent and retry_failed
\* arguments of the start_bulk_download call, which the job's closure keeps.
Session(request, courts, status, start_time) ==
    [request |-> request, courts |-> courts, status |-> status,
     start_time |-> start_time, results |-> None, error |-> None,
     terminal_at |-> None, args |-> DefaultArgs]

\* The entry after its status key is assigned.
WithStatus(session, status) ==
    [session EXCEPT
        !.status = status,
        !.terminal_at = IF status \notin Terminal THEN None
                        ELSE IF session.status \in Terminal THEN @
                        ELSE Some(now)]

\* start_bulk_download: a fresh identifier, the eager discovery, the tracker,
\* the registry entry, and the spawned thread.
StartBulkDownloadWith(i, request, disc, args) ==
    /\ job[i] = "none"
    /\ run[i].pc = "idle"
    /\ i \notin Registered
    /\ LET courts == IdentifyCourtsInComplex(disc) IN
       /\ tracker' = [tracker EXCEPT ![i] = NewTracker(Len(courts))]
       /\ active_downloads' =
              [j \in Registered \cup {i} |->
                  IF j = i
                  THEN [Session(request, courts, "starting", now)
                           EXCEPT !.args = args]
                  ELSE active_downloads[j]]
    /\ job' = [job EXCEPT ![i] = "spawned"]
    /\ UNCHANGED <<now, run, cleanup, cancel_returned, poll>>

\* The call made by the API handler: request only, the defaults for the rest
StartBulkDownload(i, request, disc) ==
    StartBulkDownloadWith(i, request, disc, DefaultArgs)

\* The except branch of run_bulk_download, entered with the fault's message:
\* it writes status and error into the registry entry, which raises again
\* when the entry is gone, and then nothing catches it.
JobFaultHandler(i, msg) ==
    IF i \in Registered
    THEN /\ active_downloads' = [active_downloads EXCEPT
                                    ![i] = [WithStatus(@, "error") EXCEPT
                                               !.error = Some(msg)]]
         /\ job' = [job EXCEPT ![i] = "done"]
    ELSE /\ job' = [job EXCEPT ![i] = "crashed"]
         /\ UNCHANGED active_downloads

\* run_bulk_download, first statement: status becomes running.
JobBegin(i) ==
    /\ job[i] = "spawned"
    /\ IF i \in Registered
       THEN /\ active_downloads' = [active_downloads EXCEPT
                                       ![i] = WithStatus(@, "running")]
            /\ job' = [job EXCEPT ![i] = "in_bulk"]
            /\ run' = [run EXCEPT ![i] =
                          [IdleRun EXCEPT !.pc = "called",
                                          !.request = active_downloads[i].request,
                                          !.cb = "tracker"]]
       ELSE /\ JobFaultHandler(i, "KeyError")
            /\ UNCHANGED run
    /\ UNCHANGED <<now, tracker, cleanup, cancel_returned, poll>>

JobStoreResultsStatusFirst(i) ==
    /\ job[i] = "in_bulk"
    /\ run[i].pc = "returned"
    /\ IF i \in Registered
       THEN /\ active_downloads' = [active_downloads EXCEPT
                                       ![i] = WithStatus(@, "completed")]
            /\ job' = [job EXCEPT ![i] = "stored"]
       ELSE JobFaultHandler(i, "KeyError")
    /\ UNCHANGED <<now, tracker, run, cleanup, cancel_returned, poll>>

\* run_bulk_download, after the orchestrator returned: the results are stored.
JobStoreResults(i) ==
    /\ job[i] = "in_bulk"
    /\ run[i].pc = "returned"
    /\ IF i \in Registered
       THEN /\ active_downloads' = [active_downloads EXCEPT
                                       ![i].results = run[i].result]
            /\ job' = [job EXCEPT ![i] = "stored"]
       ELSE JobFaultHandler(i, "KeyError")
    /\ UNCHANGED <<now, tracker, run, cleanup, cancel_returned, poll>>

\* run_bulk_download, last statement: status becomes completed.
JobComplete(i) ==
    /\ job[i] = "stored"
    /\ IF i \in Registered
       THEN /\ active_downloads' = [active_downloads EXCEPT
                                       ![i] = WithStatus(@, "completed")]
            /\ job' = [job EXCEPT ![i] = "done"]
       ELSE JobFaultHandler(i, "KeyError")
    /\ UNCHANGED <<now, tracker, run, cleanup, cancel_returned, poll>>

\* ProgressTracker.get_summary
IsComplete(t) == t.completed_items >= t.total_items

\* ProgressTracker.get_summary, without its clock reading; success_rate is
\* the quotient num / den
GetSummary(t) ==
    [total_items |-> t.total_items, completed_items |-> t.completed_items,
     successful_items |-> t.successful_items, failed_items |-> t.failed_items,
     success_rate |-> IF t.total_items > 0
                      THEN [num |-> t.successful_items * 100, den |-> t.total_items]
                      ELSE [num |-> 0, den |-> 1],
     is_complete |-> IsComplete(t)]

GetDownloadStatusUnknown(i) ==
    [found |-> FALSE, session_id |-> None,
     status |-> "", progress |-> GetSummary(NewTracker(0)),
     results |-> None, error |-> Some("Session not found")]

\* get_download_status: the not-found outcome, or the view of the session
GetDownloadStatus(i) ==
    IF i \notin Registered
    THEN [found |-> FALSE, session_id |-> None,
          status |-> "", progress |-> GetSummary(NewTracker(0)),
          results |-> None, error |-> Some("Session not found")]
    ELSE LET session == active_downloads[i] IN
         [found |-> TRUE, session_id |-> Some(i), status |-> session.status,
          progress |-> GetSummary(tracker[i]),
          results |-> IF session.status = "completed" THEN session.results ELSE None,
          error |-> IF session.status = "error" THEN session.error ELSE None]

CancelDownloadEverySession(i) ==
    /\ IF i \in Registered
       THEN /\ active_downloads' = [j \in Registered |->
                                       WithStatus(active_downloads[j], "cancelled")]
            /\ cancel_returned' = cancel_returned \cup {i}
       ELSE UNCHANGED <<active_downloads, cancel_returned>>
    /\ UNCHANGED <<now, tracker, job, run, cleanup, poll>>

\* cancel_download: False for an unknown id, else the status is overwritten
\* and True is returned.
CancelDownload(i) ==
    /\ IF i \in Registered
       THEN /\ active_downloads' = [active_downloads EXCEPT
                                       ![i] = WithStatus(@, "cancelled")]
            /\ cancel_returned' = cancel_returned \cup {i}
       ELSE UNCHANGED <<active_downloads, cancel_returned>>
    /\ UNCHANGED <<now, tracker, job, run, cleanup, poll>>

\* The test of the first loop of cleanup_completed_sessions
OldEnoughOrEqual(session, cutoff_time) ==
    /\ session.status \in Terminal
    /\ session.start_time <= cutoff_time
OldEnough(session, cutoff_time) ==
    /\ session.status \in Terminal
    /\ session.start_time < cutoff_time

\* cleanup_completed_sessions, first loop: the sessions to remove
CleanupScan(max_age_hours) ==
    /\ cleanup.pc = "idle"
    /\ LET cutoff_time == now - max_age_hours
           sessions_to_remove ==
               {i \in Registered : OldEnough(active_downloads[i], cutoff_time)}
       IN  cleanup' = [pc |-> "scanned",
                       sessions_to_remove |-> sessions_to_remove,
                       cutoff_time |-> cutoff_time]
    /\ UNCHANGED <<now, active_downloads, tracker, job, run, cancel_returned, poll>>

\* cleanup_completed_sessions, second loop: the deletions
CleanupDelete ==
    /\ cleanup.pc = "scanned"
    /\ active_downloads' =
           [j \in Registered \ cleanup.sessions_to_remove |-> active_downloads[j]]
    /\ cleanup' = IdleCleanup
    /\ UNCHANGED <<now, tracker, job, run, cancel_returned, poll>>

\* Time passes.
Tick ==
    /\ now < MaxTime
    /\ now' = now + 1
    /\ UNCHANGED <<active_downloads, tracker, job, run, cleanup, cancel_returned,
                   poll>>

\* The orchestrator run of a session's job.
JobRunUpTo(i, max) ==
    /\ job[i] = "in_bulk"
    /\ \/ \E d \in Discoveries(max) : BulkDiscover(i, d)
       \/ FetchStart(i)
       \/ \E k \in 1..max : FetchFinish(i, k)
       \/ \E k \in 1..max, out \in FetchOutcomes, exists \in BOOLEAN :
              Harvest(i, k, out, exists)
       \/ \E present \in PresentAtArchive(i), fault \in BOOLEAN : BulkFinish(i, present, fault)

JobRun(i) == JobRunUpTo(i, MaxSessionCourts)

Next ==
    \/ \E i \in Slots, r \in Requests, d \in Discoveries(MaxSessionCourts) :
           StartBulkDownload(i, r, d)
    \/ \E i \in Slots : JobBegin(i)
    \/ \E i \in Slots : JobRun(i)
    \/ \E i \in Slots : JobStoreResults(i)
    \/ \E i \in Slots : JobComplete(i)
    \/ \E i \in Slots : CancelDownload(i)
    \/ \E a \in 0..MaxAge : CleanupScan(a)
    \/ CleanupDelete
    \/ Tick

Spec == Init /\ [][Next]_vars

\* ------------------------------------ GET /api/download/{session_id}/status
HttpOk == 200
HttpNotFound == 404

\* The handler's answer to a view the manager returned
ApiStatusCode(status_info) ==
    IF status_info.error = Some("Session not found") THEN HttpNotFound
    ELSE HttpOk

Answered(i, status_info, status_code) ==
    [pc |-> "done", session_id |-> i, status_info |-> status_info,
     status_code |-> status_code]

\* The request.  The handlers are coroutines without an await: they run on
\* the event loop one at a time, and only the background jobs, which never
\* delete a session, run beside them.
ApiGetDownloadStatus(i) ==
    /\ poll' = Answered(i, GetDownloadStatus(i),
                        ApiStatusCode(GetDownloadStatus(i)))
    /\ UNCHANGED <<now, active_downloads, tracker, job, run, cleanup,
                   cancel_returned>>

\* The ids status is requested for: the one session's and one never issued
PolledIds == {1, MaxSessions}

\* One session, the cleanup and status requests.
NextApi ==
    \/ \E r \in Requests, d \in Discoveries(MaxSessionCourts) :
           StartBulkDownload(1, r, d)
    \/ JobBegin(1)
    \/ JobRun(1)
    \/ JobStoreResults(1)
    \/ JobComplete(1)
    \/ CancelDownload(1)
    \/ \E a \in 0..MaxAge : CleanupScan(a)
    \/ CleanupDelete
    \/ Tick
    \/ \E i \in PolledIds : ApiGetDownloadStatus(i)

SpecApi == Init /\ [][NextApi]_vars

\* ------------------------------------ one session with a larger work set
\* One call of start_bulk_download with any arguments, its job, and cancel
\* requests for it.
NextSession ==
    \/ \E r \in Requests, d \in Discoveries(MaxSessionCourts), a \in StartArgs :
           StartBulkDownloadWith(1, r, d, a)
    \/ JobBegin(1)
    \/ JobRunUpTo(1, MaxJobCourts)
    \/ JobStoreResults(1)
    \/ JobComplete(1)
    \/ CancelDownload(1)

SpecSession == Init /\ [][NextSession]_vars

\* --------------------- get_download_status read by read, beside the job
\* get_download_status up to the construction of status_info: the membership
\* test, and the status tag and the progress summary of the session.
GetDownloadStatusLookup(i) ==
    /\ poll.pc \in {"idle", "done"}
    /\ poll' = IF i \in Registered
               THEN [pc |-> "status_info", session_id |-> i,
                     status_info |-> [GetDownloadStatus(i) EXCEPT
                                         !.results = None, !.error = None],
                     status_code |-> 0]
               ELSE Answered(i, GetDownloadStatus(i), 0)
    /\ UNCHANGED <<now, active_downloads, tracker, job, run, cleanup,
                   cancel_returned>>

\* get_download_status, the second read of the status: the results are added
\* when it is completed and results are stored.
GetDownloadStatusResults ==
    /\ poll.pc = "status_info"
    /\ LET session == active_downloads[poll.session_id] IN
       poll' = [poll EXCEPT
                   !.pc = "results",
                   !.status_info.results =
                       IF session.status = "completed" THEN session.results
                       ELSE None]
    /\ UNCHANGED <<now, active_downloads, tracker, job, run, cleanup,
                   cancel_returned>>

\* get_download_status, the third read of the status: the error string is
\* added when it is error and a string is stored; the view is returned.
GetDownloadStatusError ==
    /\ poll.pc = "results"
    /\ LET session == active_downloads[poll.session_id] IN
       poll' = [poll EXCEPT
                   !.pc = "done",
                   !.status_info.error =
                       IF session.status = "error" THEN session.error
                       ELSE None]
    /\ UNCHANGED <<now, active_downloads, tracker, job, run, cleanup,
                   cancel_returned>>

\* One session whose job thread runs between the reads of a status request.
\* A cancel request is served by the event loop like the status request, so
\* it comes between two status requests and never inside one.
NextPoll ==
    \/ \E r \in Requests, d \in Discoveries(MaxSessionCourts) :
           StartBulkDownload(1, r, d)
    \/ JobBegin(1)
    \/ JobRun(1)
    \/ JobStoreResults(1)
    \/ JobComplete(1)
    \/ poll.pc \in {"idle", "done"} /\ CancelDownload(1)
    \/ \E i \in PolledIds : GetDownloadStatusLookup(i)
    \/ GetDownloadStatusResults
    \/ GetDownloadStatusError

SpecPoll == Init /\ [][NextPoll]_vars

\* ------------------------------------------------------ get_active_sessions
\* The ids of a set in the order the registry is iterated
RECURSIVE InOrder(_)
InOrder(ids) ==
    IF ids = {} THEN <<>>
    ELSE LET first == CHOOSE i \in ids : \A j \in ids : i <= j
         IN  <<first>> \o InOrder(ids \ {first})

\* The entry get_active_sessions builds for one session
SessionInfo(i) ==
    [session_id |-> i,
     status |-> active_downloads[i].status,
     start_time |-> active_downloads[i].start_time,
     total_courts |-> Len(active_downloads[i].courts),
     progress |-> GetSummary(tracker[i])]

GetActiveSessionsNonTerminal ==
    LET ids == InOrder({i \in Registered : active_downloads[i].status \notin Terminal})
    IN  [j \in 1..Len(ids) |-> SessionInfo(ids[j])]

\* get_active_sessions: one entry per item of the registry
GetActiveSessions ==
    LET ids == InOrder(Registered)
    IN  [j \in 1..Len(ids) |-> SessionInfo(ids[j])]

\* GET /api/download/active: the handler keeps the list it got
ApiGetActiveSessions ==
    /\ poll' = [pc |-> "listed", session_id |-> 0,
                status_info |-> GetActiveSessions, status_code |-> HttpOk]
    /\ UNCHANGED <<now, active_downloads, tracker, job, run, cleanup,
                   cancel_returned>>

\* Two sessions, cancel requests and requests for the list.  The job of the
\* first session runs to its end; the job of the second is followed up to
\* its first statement.
ListedIds == {1, MaxSessions}

NextList ==
    \/ \E i \in ListedIds, r \in Requests, d \in Discoveries(MaxSessionCourts) :
           StartBulkDownload(i, r, d)
    \/ \E i \in ListedIds : JobBegin(i)
    \/ JobRun(1)
    \/ JobStoreResults(1)
    \/ JobComplete(1)
    \/ \E i \in ListedIds : CancelDownload(i)
    \/ ApiGetActiveSessions

SpecList == Init /\ [][NextList]_vars

\* ------------------------------------------ DELETE /api/download/{session_id}
CancelDownloadAlwaysTrue(i) ==
    [returned |-> TRUE,
     active_downloads |-> IF i \in Registered
                          THEN [active_downloads EXCEPT
                                   ![i] = WithStatus(@, "cancelled")]
                          ELSE active_downloads]

\* cancel_download: what it returns and the registry it leaves
CancelDownloadEffect(i) ==
    [returned |-> i \in Registered,
     active_downloads |-> IF i \in Registered
                          THEN [active_downloads EXCEPT
                                   ![i] = WithStatus(@, "cancelled")]
                          ELSE active_downloads]

\* The handler: 404 when cancel_download returned False, else the
\* confirmation
ApiCancelDownload(i) ==
    LET effect == CancelDownloadEffect(i) IN
    /\ active_downloads' = effect.active_downloads
    /\ cancel_returned' = IF effect.returned THEN cancel_returned \cup {i}
                          ELSE cancel_returned
    /\ poll' = [pc |-> "cancel_answered", session_id |-> i,
                status_info |-> NoStatusInfo,
                status_code |-> IF effect.returned THEN HttpOk ELSE HttpNotFound]
    /\ UNCHANGED <<now, tracker, job, run, cleanup>>

\* Two sessions and cancel requests for their ids, registered or not yet.
\* The job of the first session runs to its end; the job of the second is
\* followed up to its first statement.
NextCancel ==
    \/ \E i \in ListedIds, r \in Requests, d \in Discoveries(MaxSessionCourts) :
           StartBulkDownload(i, r, d)
    \/ \E i \in ListedIds : JobBegin(i)
    \/ JobRun(1)
    \/ JobStoreResults(1)
    \/ JobComplete(1)
    \/ \E i \in ListedIds : ApiCancelDownload(i)

SpecCancel == Init /\ [][NextCancel]_vars

\* ------------------ a session whose run meets a fault outside the units
NextFault ==
    \/ \E r \in Requests, d \in Discoveries(MaxSessionCourts) :
           StartBulkDownload(1, r, d)
    \/ JobBegin(1)
    \/ JobRunUpTo(1, MaxJobCourts)
    \/ job[1] = "in_bulk" /\ \E d \in Discoveries(MaxJobCourts) : BulkSubmitFault(1, d)
    \/ job[1] = "in_bulk" /\ BulkFinishFault(1)
    \/ JobStoreResults(1)
    \/ JobComplete(1)

SpecFault == Init /\ [][NextFault]_vars

\* ------------------------------------------- two sessions side by side
\* Two sessions with cancel and status requests for both.  The job of the
\* first session runs to its end; the job of the second is followed up to
\* its first statement.
NextPair ==
    \/ \E i \in ListedIds, r \in Requests, d \in Discoveries(MaxSessionCourts) :
           StartBulkDownload(i, r, d)
    \/ \E i \in ListedIds : JobBegin(i)
    \/ JobRun(1)
    \/ JobStoreResults(1)
    \/ JobComplete(1)
    \/ \E i \in ListedIds : CancelDownload(i)
    \/ \E i \in ListedIds : ApiGetDownloadStatus(i)

SpecPair == Init /\ [][NextPair]_vars

\* ------------------------------- download_single_cause_list called directly
\* The single-download handler calls download_single_cause_list; the results
\* of its successive calls are kept in the download_results of slot 1, and pc
\* says whether the last call returned or raised.
ApiDownloadSingle(k, date, call, stamp) ==
    /\ job[1] = "none"
    /\ run[1].pc \in {"idle", "single"}
    /\ Len(run[1].download_results) < MaxSingleCalls
    /\ LET r == DownloadSingleCauseListGuarded(CourtCode(k), date, call, stamp)
       IN  run' = [run EXCEPT
                      ![1].pc = IF r.raised THEN "raised" ELSE "single",
                      ![1].download_results =
                          IF r.raised THEN @ ELSE Append(@, r.result)]
    /\ UNCHANGED <<now, active_downloads, tracker, job, cleanup,
                   cancel_returned, poll>>

NextSingle ==
    \E k \in 1..MaxSingleCourts, date \in Dates, call \in ScraperCalls,
       stamp \in Stamps : ApiDownloadSingle(k, date, call, stamp)

SpecSingle == Init /\ [][NextSingle]_vars

\* ------------------------------------------- a ProgressTracker on its own
\* A tracker constructed with any total, no session
InitTracker ==
    /\ now = 0
    /\ active_downloads = << >>
    /\ tracker \in {[i \in Slots |-> IF i = 1 THEN NewTracker(total)
                                     ELSE NewTracker(0)] : total \in 0..MaxTotal}
    /\ job = [i \in Slots |-> "none"]
    /\ run = [i \in Slots |-> IdleRun]
    /\ cleanup = IdleCleanup
    /\ cancel_returned = {}
    /\ poll = IdlePoll

AddCallback(i, callback) ==
    /\ Len(tracker[i].callbacks) < MaxCallbacks
    /\ tracker' = [tracker EXCEPT ![i] = AddCallbackTo(@, callback)]
    /\ UNCHANGED <<now, active_downloads, job, run, cleanup, cancel_returned,
                   poll>>

UpdateProgressCall(i, item_name, success) ==
    /\ tracker[i].completed_items < MaxUpdates
    /\ tracker' = [tracker EXCEPT
                      ![i] = UpdateProgress(@, item_name, success).t]
    /\ UNCHANGED <<now, active_downloads, job, run, cleanup, cancel_returned,
                   poll>>

NextTracker ==
    \/ \E callback \in TrackerCallbacks : AddCallback(1, callback)
    \/ \E item_name \in ItemNames, success \in BOOLEAN :
           UpdateProgressCall(1, item_name, success)

SpecTracker == InitTracker /\ [][NextTracker]_vars

\* ================================================================== claims
Returned(i) == run[i].pc = "returned"
Result(i) == run[i].result[1]
Units(i) == 1..Len(run[i].fut)
Discovered(i) == Len(run[i].courts)

\* The names the code gives to the files of court k for the date 2025-01-15.
MostUnits == IF MaxCourts > MaxSessionCourts THEN MaxCourts ELSE MaxSessionCourts
ExpectedCourtFiles ==
    [k \in 1..MostUnits |->
        "Court_C" \o ToString(k) \o "_C" \o ToString(k) \o "_2025_01_15.pdf"]
ExpectedErrorFiles ==
    [k \in 1..MostUnits |-> "error_C" \o ToString(k) \o "_2025_01_15.pdf"]
ExpectedCourtFile(k) == ExpectedCourtFiles[k]
ExpectedErrorFile(k) == ExpectedErrorFiles[k]

\* The positions of a result list that belong to court k.
EntriesOf(results, k) ==
    {j \in 1..Len(results) :
        results[j].filename \in {ExpectedCourtFile(k), ExpectedErrorFile(k)}}

OkUnits(i) == {k \in Units(i) : run[i].fut[k].out.kind = "ok"}

\* C1: a returned BulkDownloadResult of a run that discovered N units has N
\* entries, total_files = N, successful + failed = N, and failed_downloads
\* counts the entries whose success flag is false.
C1_CountsMatchWorkSet ==
    \A i \in Slots : Returned(i) =>
        LET res == Result(i)
            n == Discovered(i)
        IN  /\ Len(res.download_results) = n
            /\ res.total_files = n
            /\ res.successful_downloads + res.failed_downloads = n
            /\ res.failed_downloads =
                   Cardinality({j \in 1..Len(res.download_results) :
                                   ~res.download_results[j].success})

\* C2: a status that is completed, error or cancelled is never changed by a
\* later step; the session can only be removed.
C2_TerminalStatusIsFinal ==
    [][\A i \in Registered :
          (active_downloads[i].status \in Terminal /\ i \in DOMAIN active_downloads')
              => active_downloads'[i].status = active_downloads[i].status]_vars

\* C3: once cancel_download has returned True for a session,
\* get_download_status never reports completed for it.
C3_CancelledNeverReportsCompleted ==
    \A i \in cancel_returned : GetDownloadStatus(i).status # "completed"

\* C4: a fetch call that raises yields exactly one result for its unit, a
\* failure of size 0 named error_{code}_{date with _}.pdf that carries the
\* fault's message, and the run still harvests and returns every other unit.
C4_FetchFaultContained ==
    \A i \in Slots : \A k \in Units(i) :
        run[i].fut[k].out.kind = "raise" =>
            LET results == run[i].download_results
                mine == EntriesOf(results, k)
            IN  /\ run[i].fut[k].st = "harvested" =>
                       /\ Cardinality(mine) = 1
                       /\ \A j \in mine :
                              /\ results[j].success = FALSE
                              /\ results[j].file_size = 0
                              /\ results[j].filename = ExpectedErrorFile(k)
                              /\ results[j].error_message = Some(run[i].fut[k].out.msg)
                /\ Returned(i) =>
                       /\ Result(i).total_files = Discovered(i)
                       /\ \A o \in Units(i) :
                              /\ run[i].fut[o].st = "harvested"
                              /\ EntriesOf(Result(i).download_results, o) # {}

\* a run returned after a unit raised and another unit succeeded
C4_Witness ==
    /\ Returned(1)
    /\ \E k \in Units(1) : run[1].fut[k].out.kind = "raise"
    /\ \E k \in Units(1) : run[1].fut[k].out.kind = "ok"

C6_EmptyWorkSet ==
    \A i \in Slots : (Returned(i) /\ Discovered(i) = 0) =>
        /\ Result(i).success = FALSE
        /\ Result(i).total_files = 0
        /\ Result(i).successful_downloads = 0
        /\ Result(i).failed_downloads = 0
        /\ Result(i).download_results = <<>>
        /\ Result(i).zip_filename = None
        /\ Result(i).zip_download_url = None
        /\ run[i].fut = <<>>
        /\ run[i].archive = None

C6_Witness == Returned(1) /\ Discovered(1) = 0 /\ run[1].completed = 0

\* C7: at most 3 fetch calls of one run execute at the same time.
C7_AtMostThreeInFlight == \A i \in Slots : InFlight(i) <= 3

\* three fetch calls executing while a fourth waits for a worker
C7_Witness == InFlight(1) = 3 /\ Queued(1) # {}

C9_NoArchiveNoZipFields ==
    \A i \in Slots :
        (Returned(i) /\ run[i].archive # None /\ run[i].archive[1].location = None) =>
            /\ Result(i).zip_filename = None
            /\ Result(i).zip_download_url = None
            /\ Result(i).success = (Result(i).successful_downloads > 0)

\* C10: the background job never ends with an unhandled fault, and a job
\* that met a fault leaves its session with status error and the message.
C10_JobFaultCaught ==
    \A i \in Slots :
        /\ job[i] # "crashed"
        /\ (i \in Registered /\ active_downloads[i].error # None) =>
               active_downloads[i].status = "error"

\* The session ids the step removes from the registry
Deleted == Registered \ DOMAIN active_downloads'

\* C11: in every interleaving of cleanup with start, cancel and the background
\* jobs, a session is deleted from the registry only if its status at the
\* moment of deletion is completed, error or cancelled; a starting or running
\* session is never deleted.
C11_OnlyTerminalDeleted ==
    [][\A i \in Deleted : active_downloads[i].status \in Terminal]_vars

\* The step in which a cleanup call finishes its first loop, and the step in
\* which it finishes its second
ScanStep == cleanup.pc = "idle" /\ cleanup'.pc = "scanned"
DeleteStep == cleanup.pc = "scanned" /\ cleanup'.pc = "idle"
\* A first loop of a cleanup call with max_age_hours = 0
ZeroAgeScan == ScanStep /\ cleanup'.cutoff_time = now
Selected == cleanup'.sessions_to_remove

\* C12 as stated: cleanup with max_age_hours = 0 removes every session whose
\* status is completed, error or cancelled, one started at the same instant
\* included, and leaves every running session in the registry unchanged.
C12_ZeroAgeRemovesEveryTerminal ==
    [][ZeroAgeScan =>
          \A i \in Registered :
              /\ active_downloads[i].status \in Terminal => i \in Selected
              /\ active_downloads[i].status = "running" =>
                     /\ i \notin Selected
                     /\ active_downloads'[i] = active_downloads[i]
                     /\ tracker'[i] = tracker[i]]_vars

\* C12 amended: cleanup with max_age_hours = 0 selects exactly the sessions
\* whose status is terminal when it examines them and whose start_time is
\* strictly earlier than its clock reading (a terminal session started at the
\* same instant is kept); it deletes exactly the selected sessions and changes
\* no status, progress or results of a session it keeps.
C12_ZeroAgeRemovesStrictlyOlder ==
    [][/\ ZeroAgeScan =>
            /\ Selected = {i \in Registered :
                               /\ active_downloads[i].status \in Terminal
                               /\ active_downloads[i].start_time < now}
            /\ active_downloads' = active_downloads
            /\ tracker' = tracker
       /\ DeleteStep =>
            /\ DOMAIN active_downloads' = Registered \ cleanup.sessions_to_remove
            /\ \A i \in DOMAIN active_downloads' :
                   /\ active_downloads'[i] = active_downloads[i]
                   /\ tracker'[i] = tracker[i]]_vars

\* A cleanup with max_age_hours = 0 has kept a terminal session that was
\* started at the instant of the cleanup, after time had passed
C12_Witness ==
    /\ cleanup.pc = "scanned"
    /\ cleanup.cutoff_time = now
    /\ now > 0
    /\ \E j \in Registered \ cleanup.sessions_to_remove :
           /\ active_downloads[j].status \in Terminal
           /\ active_downloads[j].start_time = now

\* C13: cleanup measures a session's age from the moment it entered its
\* terminal state: a terminal session is removed exactly when the time since
\* it became terminal exceeds max_age (so one that became terminal more
\* recently is kept however long ago it was started).
C13_AgeSinceTerminal ==
    [][ScanStep =>
          Selected = {i \in Registered :
                         /\ active_downloads[i].status \in Terminal
                         /\ active_downloads[i].terminal_at # None
                         /\ active_downloads[i].terminal_at[1] <
                                cleanup'.cutoff_time}]_vars

\* The step in which a status request is answered
AnswerStep == poll' # poll /\ poll'.pc = "done"

\* C14: get_download_status returns the not-found outcome if and only if the
\* id is not in the registry; for every registered session, in any status, it
\* returns a view with the session id, the status tag and the progress
\* summary; the API answers 404 exactly for the not-found outcome.
C14_NotFoundIffUnregistered ==
    [][AnswerStep =>
          LET i == poll'.session_id
              view == poll'.status_info
          IN  /\ (view.error = Some("Session not found")) <=> (i \notin Registered)
              /\ (poll'.status_code = HttpNotFound) <=> (i \notin Registered)
              /\ i \in Registered =>
                     /\ poll'.status_code = HttpOk
                     /\ view.session_id = Some(i)
                     /\ view.status = active_downloads[i].status
                     /\ view.progress.total_items = tracker[i].total_items
                     /\ view.progress.completed_items = tracker[i].completed_items
                     /\ view.progress.successful_items = tracker[i].successful_items
                     /\ view.progress.failed_items = tracker[i].failed_items]_vars

\* A request for a session that the cleanup has removed was answered 404
C14_Witness ==
    /\ poll.pc = "done"
    /\ poll.status_code = HttpNotFound
    /\ job[poll.session_id] # "none"
    /\ poll.session_id \notin Registered

\* The step in which start_bulk_download returns the id i
StartStep(i) == i \notin Registered /\ i \in DOMAIN active_downloads'

\* C15: start_bulk_download registers the session with status starting,
\* spawns the job and returns without waiting for any fetch: when it returns
\* no fetch of the session has begun.  From then on the id leaves the
\* registry only by a deletion of the cleanup, and no status request for a
\* registered id is answered not-found.
C15_StartReturnsAtOnce ==
    [][/\ \A i \in Slots :
            StartStep(i) =>
                /\ active_downloads'[i].status = "starting"
                /\ job'[i] = "spawned"
                /\ run'[i] = IdleRun
       /\ \A i \in Deleted : DeleteStep /\ i \in cleanup.sessions_to_remove
       /\ (AnswerStep /\ poll'.session_id \in Registered) =>
              /\ poll'.status_code # HttpNotFound
              /\ poll'.status_info.error # Some("Session not found")]_vars

\* A status request was answered with status starting while the job of the
\* session had not executed a statement and no fetch had been submitted
C15_Witness ==
    /\ poll.pc = "done"
    /\ poll.session_id \in Registered
    /\ poll.status_info.status = "starting"
    /\ active_downloads[poll.session_id].status = "starting"
    /\ job[poll.session_id] = "spawned"
    /\ run[poll.session_id].fut = <<>>

\* C16: in every reachable state of a session its tracker satisfies
\* completed_items = successful_items + failed_items and
\* completed_items <= total_items, and no counter ever decreases.
C16_TrackerCounters ==
    /\ [](\A i \in Registered :
             /\ tracker[i].completed_items =
                    tracker[i].successful_items + tracker[i].failed_items
             /\ tracker[i].completed_items <= tracker[i].total_items)
    /\ [][\A i \in Registered \cap DOMAIN active_downloads' :
             /\ tracker'[i].completed_items >= tracker[i].completed_items
             /\ tracker'[i].successful_items >= tracker[i].successful_items
             /\ tracker'[i].failed_items >= tracker[i].failed_items]_vars

\* The units of session i whose fetch has completed and been recorded
HarvestedUnits(i) == {k \in 1..Len(run[i].fut) : run[i].fut[k].st = "harvested"}

\* C17: during a session's job the tracker's update is invoked exactly once
\* for every work unit when it completes, whether it succeeded, returned a
\* failure or raised, and never twice; hence when the session reaches
\* completed, completed_items equals the number of work units and
\* is_complete() is true.
C17_UpdateOncePerUnit ==
    \A i \in Registered :
        /\ tracker[i].completed_items = Cardinality(HarvestedUnits(i))
        /\ (active_downloads[i].status = "completed" /\ job[i] = "done") =>
               /\ tracker[i].completed_items = Len(run[i].courts)
               /\ GetSummary(tracker[i]).is_complete

RECURSIVE Successes(_)
Successes(history) ==
    IF history = <<>> THEN 0
    ELSE (IF Head(history).success THEN 1 ELSE 0) + Successes(Tail(history))

Abs(x) == IF x < 0 THEN 0 - x ELSE x

\* p, in hundredths, is num / den rounded to two decimals
IsRounded(p, num, den) == 2 * Abs(p * den - 100 * num) <= den

\* The counters, is_complete and the reported percent of tracker t after its
\* history of k <= T updates, for T >= 1
CountersAndPercentOf(t) ==
    LET T == t.total_items
        k == Len(t.history)
        s == Successes(t.history)
    IN  /\ t.completed_items = k
        /\ t.successful_items = s
        /\ t.failed_items = k - s
        /\ IsComplete(t) <=> k >= T
        /\ k >= 1 =>
               /\ t.progress_info # None
               /\ IsRounded(t.progress_info[1].progress_percent, k * 100, T)
               /\ k = T => t.progress_info[1].progress_percent = 100 * 100

InClaimedRange(t) == t.total_items >= 1 /\ Len(t.history) <= t.total_items

\* C18 as stated: for a tracker of total T >= 1, after k <= T updates of which
\* s report success, completed_items = k, successful_items = s,
\* failed_items = k - s, is_complete() holds exactly when k >= T, the percent
\* reported for the k-th update is k/T*100, and the summary exposes that
\* percent.
C18_SummaryExposesPercent ==
    \A i \in Slots :
        InClaimedRange(tracker[i]) =>
            /\ CountersAndPercentOf(tracker[i])
            /\ Len(tracker[i].history) >= 1 =>
                   IsRounded(tracker[i].progress_info[1].progress_percent,
                             GetSummary(tracker[i]).success_rate.num,
                             GetSummary(tracker[i]).success_rate.den)

\* C18 amended: the counters, is_complete() and the percent reported to the
\* callbacks are as stated (the percent rounded to two decimals); the summary
\* carries the counters and is_complete but not that percent: its only rate
\* is success_rate = s/T*100.
C18_CountersAndReportedPercent ==
    \A i \in Slots :
        InClaimedRange(tracker[i]) =>
            /\ CountersAndPercentOf(tracker[i])
            /\ GetSummary(tracker[i]).completed_items = Len(tracker[i].history)
            /\ GetSummary(tracker[i]).is_complete <=>
                   Len(tracker[i].history) >= tracker[i].total_items
            /\ GetSummary(tracker[i]).success_rate =
                   [num |-> Successes(tracker[i].history) * 100,
                    den |-> tracker[i].total_items]

\* A tracker after as many updates as its total, some successful and some
\* failed
C18_Witness ==
    \E i \in Slots :
        /\ tracker[i].total_items > 1
        /\ Len(tracker[i].history) = tracker[i].total_items
        /\ Successes(tracker[i].history) > 0
        /\ Successes(tracker[i].history) < tracker[i].total_items
        /\ tracker[i].progress_info # None

\* The update_progress calls made on tracker t returned normally and
\* reported 100 percent
UpdatesReturned(t) ==
    t.history # <<>> =>
        /\ ~t.raised
        /\ t.progress_info # None
        /\ t.progress_info[1].progress_percent = 100 * 100

\* C19: a tracker constructed with total 0 is complete immediately, and an
\* update_progress call on it reports percent 100 and returns normally,
\* without raising and without leaving the counters changed by a failed call.
C19_ZeroTotalUpdateReturns ==
    \A i \in Slots :
        tracker[i].total_items = 0 =>
            /\ IsComplete(tracker[i])
            /\ UpdatesReturned(tracker[i])
            /\ tracker[i].raised => tracker[i].completed_items = 0

\* What the callbacks are given by the calls of history, in order: the n-th
\* call gives its snapshot to each callback registered at the call, in
\* registration order
RECURSIVE ExpectedDeliveries(_, _)
ExpectedDeliveries(history, n) ==
    IF n > Len(history) THEN <<>>
    ELSE [j \in 1..history[n].callbacks |-> [callback |-> j, completed_items |-> n]]
         \o ExpectedDeliveries(history, n + 1)

\* C20: on every update_progress call each registered callback is invoked
\* exactly once, in registration order, with the snapshot of that update; a
\* callback that raises does not propagate to the caller, does not prevent the
\* later callbacks from being invoked and does not undo the increments.
C20_EveryCallbackOnce ==
    \A i \in Slots :
        /\ tracker[i].raised => tracker[i].history[Len(tracker[i].history)].callbacks = 0
        /\ tracker[i].completed_items = Len(tracker[i].history)
        /\ [n \in 1..Len(tracker[i].delivered) |->
               [callback |-> tracker[i].delivered[n].callback,
                completed_items |-> tracker[i].delivered[n].info.completed_items]]
              = ExpectedDeliveries(tracker[i].history, 1)

\* C21: create_zip_archive returns a location only when the archive exists
\* and is non-empty: input files missing at call time are skipped, and when
\* the input list is empty or none of the input files exists it returns no
\* location rather than the path of an archive with no entries.
C21_NoLocationForEmptyArchive ==
    /\ \A d \in Dates :
           CreateZipArchive(<<>>, "a.zip", d, {}, FALSE).location = None
    /\ \A i \in Slots :
           (Returned(i) /\ run[i].archive # None) =>
               /\ run[i].archive[1].entries \subseteq
                      {run[i].archive[1].file_paths[k] :
                          k \in 1..Len(run[i].archive[1].file_paths)}
               /\ run[i].archive[1].location # None =>
                      run[i].archive[1].entries # {}

\* C22: when start_bulk_download is called with max_concurrent = k, at most k
\* fetch calls of that session are executing at the same time, for every
\* k >= 1.
C22_AtMostMaxConcurrentInFlight ==
    \A i \in Registered : InFlight(i) <= active_downloads[i].args.max_concurrent

\* The job of session i has ended after a discovery call that raised
EndedAfterDiscoveryFault(i) ==
    i \in Registered /\ run[i].discovery_raised /\ job[i] = "done"

\* C23 as stated: if the discovery call raises during the orchestrator run of
\* a session's job, the session ends in status error with the fault's message
\* as its error string, and not in status completed.
C23_DiscoveryFaultEndsInError ==
    \A i \in Slots :
        EndedAfterDiscoveryFault(i) =>
            /\ active_downloads[i].status = "error"
            /\ active_downloads[i].error # None

\* C23 amended: a discovery call that raises is caught inside
\* identify_courts_in_complex and treated as an empty work set: the run
\* returns the result with success false and all counts 0, the job stores it
\* and writes status completed; status error is never written and no error
\* string is set (a later cancel request can still overwrite the status).
C23_DiscoveryFaultEndsCompleted ==
    \A i \in Registered :
        run[i].discovery_raised =>
            /\ active_downloads[i].status # "error"
            /\ active_downloads[i].error = None
            /\ Returned(i)
            /\ ~Result(i).success
            /\ Result(i).total_files = 0
            /\ Result(i).download_results = <<>>
            /\ job[i] = "done" =>
                   /\ active_downloads[i].status \in {"completed", "cancelled"}
                   /\ active_downloads[i].results = run[i].result
                   /\ i \notin cancel_returned =>
                          active_downloads[i].status = "completed"

C23_Witness ==
    \E i \in Slots :
        /\ EndedAfterDiscoveryFault(i)
        /\ active_downloads[i].status = "completed"
        /\ active_downloads[i].results # None
        /\ Len(active_downloads[i].courts) > 0

\* The fields of the view of get_download_status that a cancel request could
\* change: the status tag, the results and the error string
StatusView(session) ==
    [status |-> session.status,
     results |-> IF session.status = "completed" THEN session.results ELSE None,
     error |-> IF session.status = "error" THEN session.error ELSE None]

\* C24: the status of a session becomes cancelled only from starting or
\* running; a step taken on a session that is completed or in error and
\* keeps it registered leaves its status and the results or error string
\* returned by get_download_status unchanged.
C24_CancelOnlyFromNonTerminal ==
    [][\A i \in Registered \cap DOMAIN active_downloads' :
          /\ (active_downloads'[i].status = "cancelled"
                  /\ active_downloads[i].status # "cancelled")
                 => active_downloads[i].status \in {"starting", "running"}
          /\ active_downloads[i].status \in {"completed", "error"}
                 => StatusView(active_downloads'[i]) = StatusView(active_downloads[i])
      ]_vars

\* The run of session i has returned in a job that a cancel request found
\* running: only cancel_download writes cancelled, and the job overwrites it
\* when it begins and when it completes.
CancelledWhileRunning(i) ==
    /\ i \in Registered
    /\ active_downloads[i].status = "cancelled"
    /\ job[i] = "in_bulk"
    /\ Returned(i)

\* Every unit of the run of session i was fetched, to its end, and harvested
EveryUnitFetched(i) ==
    /\ Len(run[i].fut) = Discovered(i)
    /\ AllHarvested(i)
    /\ run[i].completed = Discovered(i)

\* C25: a cancel request on a session whose job is running interrupts and
\* skips no fetch: the run still fetches every unit to its end, and the
\* session's tracker ends with every unit counted.
C25_CancelIsAdvisory ==
    \A i \in Slots :
        CancelledWhileRunning(i) =>
            /\ EveryUnitFetched(i)
            /\ tracker[i].completed_items = Discovered(i)

\* The part of C25 about the fetch calls alone, which holds
C25_FetchesUnaffected ==
    \A i \in Slots : CancelledWhileRunning(i) => EveryUnitFetched(i)

\* C26: a view returned by get_download_status with status completed holds
\* the session's BulkDownloadResult, and one with status error holds the
\* error string, whatever the job wrote between the reads of the request.
C26_TerminalViewHasPayload ==
    (poll.pc = "done" /\ poll.status_info.found) =>
        /\ poll.status_info.status = "completed" =>
               /\ poll.status_info.results # None
               /\ poll.status_info.results = run[poll.session_id].result
        /\ poll.status_info.status = "error" =>
               poll.status_info.error # None

\* A completed view with a non-empty result, returned for a session that a
\* cancel request had reached before its job wrote completed.
C26_Witness ==
    /\ poll.pc = "done"
    /\ poll.status_info.found
    /\ poll.status_info.status = "completed"
    /\ poll.status_info.results # None
    /\ Len(poll.status_info.results[1].download_results) > 0
    /\ poll.session_id \in cancel_returned

\* C27: the scan and the delete of cleanup_completed_sessions take effect as
\* one step with respect to the other writers of the registry: between the
\* two loops nothing is written to a session the scan selected, so every
\* session is deleted in the status it was selected on.
C27_CleanupSerialized ==
    [][(cleanup.pc = "scanned" /\ ~DeleteStep)
           => \A i \in cleanup.sessions_to_remove \cap Registered :
                  /\ i \in DOMAIN active_downloads'
                  /\ active_downloads'[i] = active_downloads[i]]_vars

\* The harvesting loop takes the finished future of unit k of run i
HarvestStep(i, k) ==
    /\ k \in Units(i)
    /\ k \in 1..Len(run'[i].fut)
    /\ run[i].fut[k].st = "done"
    /\ run'[i].fut[k].st = "harvested"

\* The units of run i for which the progress callback has been called: the
\* harvested ones whose future did not raise, when a callback was given
CallbackCalledFor(r) ==
    IF r.cb = "none" THEN {}
    ELSE {j \in 1..Len(r.fut) : r.fut[j].st = "harvested" /\ r.fut[j].out.kind # "raise"}

\* C28: the i-th future the harvesting loop takes gives the i-th entry of
\* download_results, and the i-th call of the progress callback carries
\* completed = i.
C28_HarvestedInCompletionOrder ==
    [][\A i \in Slots : \A k \in 1..MostUnits :
          HarvestStep(i, k) =>
              /\ Len(run'[i].download_results) = run'[i].completed
              /\ EntriesOf(run'[i].download_results, k) = {run'[i].completed}
              /\ k \in CallbackCalledFor(run'[i]) =>
                     run'[i].completed = Cardinality(CallbackCalledFor(run'[i]))
      ]_vars

\* The part of C28 that holds: every entry is appended when its future is
\* taken, without waiting for a unit submitted earlier.
C28_AppendedWhenTaken ==
    [][\A i \in Slots : \A k \in 1..MostUnits :
          HarvestStep(i, k) =>
              /\ Len(run'[i].download_results) > Len(run[i].download_results)
              /\ EntriesOf(run'[i].download_results, k) # {}
              /\ EntriesOf(run[i].download_results, k) = {}
      ]_vars

\* C29, the part a finite run refutes: a session that has reached completed,
\* error or cancelled stays in exactly that status while it is registered,
\* and with no cancel request a session whose job has ended after its run
\* returned a result is completed with that result stored.
C29_ReachesOneTerminalStatus ==
    /\ [](\A i \in Registered :
             (job[i] = "done" /\ Returned(i) /\ i \notin cancel_returned) =>
                 /\ active_downloads[i].status = "completed"
                 /\ active_downloads[i].results = run[i].result)
    /\ [][\A i \in Registered \cap DOMAIN active_downloads' :
              active_downloads[i].status \in Terminal =>
                  /\ active_downloads'[i].status \in Terminal
                  /\ active_downloads'[i].status = active_downloads[i].status
         ]_vars

Attempts(i, k) == IF run[i].fut[k].st = "queued" THEN 0 ELSE 1

\* C31: in a session started with retry_failed = True, a unit that is
\* recorded as failed in the result was attempted at least twice.
C31_FailedUnitRetried ==
    \A i \in Registered :
        (active_downloads[i].args.retry_failed /\ Returned(i)) =>
            \A k \in Units(i) :
                run[i].fut[k].out.kind \in {"fail", "raise"} => Attempts(i, k) >= 2

\* A failure result as the claim describes it
NormalizedFailure(result) ==
    /\ ~result.success
    /\ result.file_size = 0
    /\ result.filename # ""
    /\ result.download_url # ""
    /\ result.error_message # None
    /\ result.error_message[1] # ""

\* C32: download_single_cause_list never raises to its caller; when the
\* scraper reports a failure, or the scraper or the file move raises, it
\* returns a result with success false, size 0 and a non-empty filename,
\* download_url and error_message.
C32_SingleFetchNormalizesFailures ==
    /\ run[1].pc # "raised"
    /\ \A k \in 1..MaxSingleCourts, date \in Dates, call \in ScraperCalls,
          stamp \in Stamps :
           LET r == DownloadSingleCauseListGuarded(CourtCode(k), date, call, stamp)
           IN  /\ ~r.raised
               /\ (call.kind # "ok" \/ call.move_raises) =>
                      NormalizedFailure(r.result)
               /\ (call.kind = "ok" /\ ~call.move_raises) => r.result.success
    /\ run[1].pc = "single" =>
           \A j \in 1..Len(run[1].download_results) :
               \/ run[1].download_results[j].success
               \/ NormalizedFailure(run[1].download_results[j])

\* Direct calls have returned a reported failure, the default message and a
\* caught fault
C32_Witness ==
    /\ run[1].pc = "single"
    /\ \E j \in 1..Len(run[1].download_results) :
           run[1].download_results[j].error_message = Some("Unknown download error")
    /\ \E j \in 1..Len(run[1].download_results) :
           run[1].download_results[j].error_message =
               Some("Download service error: move failed")
    /\ \E j \in 1..Len(run[1].download_results) :
           run[1].download_results[j].error_message = Some("timeout")

\* C33: a session whose work set was empty when start_bulk_download resolved
\* it has a tracker of total 0 that is complete, its job makes no fetch
\* call, and without a cancel request it ends in completed holding the
\* result with success false and all counts 0.
C33_EmptyWorkSetSession ==
    \A i \in Registered :
        active_downloads[i].courts = <<>> =>
            /\ tracker[i].total_items = 0
            /\ IsComplete(tracker[i])
            /\ run[i].fut = <<>>
            /\ (job[i] = "done" /\ i \notin cancel_returned) =>
                   /\ active_downloads[i].status = "completed"
                   /\ active_downloads[i].results = Some(EmptyBulkResult)

\* C37: a session that is completed has a tracker whose total_items equals
\* the total_files of its stored result.
C37_TrackerTotalIsResultTotal ==
    \A i \in Registered :
        (active_downloads[i].status = "completed"
            /\ active_downloads[i].results # None) =>
            tracker[i].total_items = active_downloads[i].results[1].total_files

ListStep == poll' # poll /\ poll'.pc = "listed"

\* C34: get_active_sessions returns exactly one entry for every session in
\* the registry, whatever its status, each with the session's current status
\* and progress summary, and it changes neither the registry nor a session.
C34_ListHasEverySession ==
    [][ListStep =>
          LET list == poll'.status_info IN
          /\ Len(list) = Cardinality(Registered)
          /\ \A i \in Registered :
                 Cardinality({j \in 1..Len(list) : list[j].session_id = i}) = 1
          /\ \A j \in 1..Len(list) :
                 /\ list[j].session_id \in Registered
                 /\ list[j].status = active_downloads[list[j].session_id].status
                 /\ list[j].progress = GetSummary(tracker[list[j].session_id])
          /\ active_downloads' = active_downloads
          /\ tracker' = tracker
      ]_vars

\* A list of two sessions, one completed and one cancelled
C34_Witness ==
    /\ poll.pc = "listed"
    /\ Len(poll.status_info) = 2
    /\ \E j \in 1..2 : /\ poll.status_info[j].status = "completed"
                       /\ poll.status_info[j].progress.completed_items > 0
    /\ \E j \in 1..2 : poll.status_info[j].status = "cancelled"

\* A cancel request is answered: the jobs and the start requests, which
\* always move a job or a run, are not the ones taking the step
CancelAnswerStep ==
    /\ poll'.pc = "cancel_answered"
    /\ UNCHANGED <<job, run, tracker>>

\* C35: cancel_download for an id that is not registered returns False,
\* changes nothing and is answered 404; for a registered id it returns True;
\* in both cases no session other than the named one is changed.
C35_CancelUnknownIsNotFound ==
    [][CancelAnswerStep =>
          LET i == poll'.session_id IN
          /\ DOMAIN active_downloads' = Registered
          /\ \A j \in Registered \ {i} : active_downloads'[j] = active_downloads[j]
          /\ i \notin Registered =>
                 /\ poll'.status_code = HttpNotFound
                 /\ active_downloads' = active_downloads
                 /\ cancel_returned' = cancel_returned
          /\ i \in Registered =>
                 /\ poll'.status_code = HttpOk
                 /\ i \in cancel_returned'
                 /\ active_downloads'[i].status = "cancelled"
      ]_vars

\* A cancel request for an id not registered was answered 404 while another
\* session was registered, and one for a registered id was confirmed
C35_Witness ==
    /\ poll.pc = "cancel_answered"
    /\ poll.status_code = HttpNotFound
    /\ poll.session_id \notin Registered
    /\ Registered # {}
    /\ cancel_returned # {}

\* Requests that differ in more than the complex code and the date
NamedRequests ==
    [state_code : {"ST", "S2"}, district_code : {"DT", "D2"},
     complex_code : {"CX1", "CX2"}, date : Dates]

ZipFilenames == [r \in NamedRequests |-> ZipFilename(r)]
NameDependsOnComplexAndDate ==
    \A r1, r2 \in NamedRequests :
        (r1.complex_code = r2.complex_code /\ r1.date = r2.date)
            <=> ZipFilenames[r1] = ZipFilenames[r2]

\* C36: the zip_filename of a returned result that has one is
\* bulk_download_{complex_code}_{date with _ for -}.zip, and the name depends
\* on the complex code and the date of the request only.
C36_ArchiveNameDeterministic ==
    /\ \A i \in Slots :
           (Returned(i) /\ Result(i).zip_filename # None) =>
               /\ run[i].request.date = <<"2", "0", "2", "5", "-", "0", "1", "-", "1", "5">>
               /\ Result(i).zip_filename =
                      Some("bulk_download_" \o run[i].request.complex_code
                               \o "_2025_01_15.zip")
    /\ NameDependsOnComplexAndDate

\* A returned run that names its archive
C36_Witness ==
    \E i \in Slots :
        /\ Returned(i)
        /\ Result(i).zip_filename = Some("bulk_download_CX1_2025_01_15.zip")
        /\ Result(i).successful_downloads > 0

\* C38: when the progress callback raises while a unit's result is being
\* recorded, the returned result still has exactly one entry for that unit,
\* the unit's real result, and as many entries as units.
C38_CallbackFaultKeepsOneEntry ==
    \A i \in Slots :
        (Returned(i) /\ run[i].cb = "raise") =>
            /\ Len(Result(i).download_results) = Discovered(i)
            /\ \A k \in OkUnits(i) :
                   /\ Cardinality(EntriesOf(Result(i).download_results, k)) = 1
                   /\ \A j \in EntriesOf(Result(i).download_results, k) :
                          Result(i).download_results[j].success

Held(ad, tr, i) == IF i \in DOMAIN ad THEN <<ad[i], tr[i]>> ELSE <<>>

\* The ids whose session or tracker a step changes, inserts or removes
Touched ==
    {i \in Slots : Held(active_downloads', tracker', i)
                       # Held(active_downloads, tracker, i)}

\* C40: start_bulk_download registers an id that was not registered and
\* leaves every registered session as it was; a step of the job of one
\* session and a cancel request for one session change no other session and
\* no other tracker; a status request changes none.
C40_SessionsIsolated ==
    [][/\ Cardinality(Touched) <= 1
       /\ \A i \in Registered : i \in DOMAIN active_downloads'
       /\ \A i \in Slots :
              (job'[i] # job[i] \/ run'[i] # run[i]) => Touched \subseteq {i}
       /\ \A i \in Slots :
              (job[i] = "none" /\ job'[i] # "none") =>
                  /\ i \notin Registered
                  /\ Touched = {i}
       /\ \A i \in Slots :
              (i \in cancel_returned' \ cancel_returned) => Touched \subseteq {i}
       /\ poll' # poll => Touched = {}
      ]_vars

\* Two registered sessions in different statuses, one with stored results,
\* the other cancelled, and an answered status request
C40_Witness ==
    /\ Cardinality(Registered) = 2
    /\ \E i, j \in Registered :
           /\ i # j
           /\ active_downloads[i].status = "completed"
           /\ active_downloads[i].results # None
           /\ tracker[i].completed_items > 0
           /\ active_downloads[j].status = "cancelled"
           /\ active_downloads[j].results = None
           /\ tracker[j].completed_items = 0
    /\ poll.pc = "done"
====
